---- MODULE Spec2Model ----
(***************************************************************************)
(* Emotion detection from audio + text: the Streamlit front end (app.py)   *)
(* and the command-line script (ed.py).                                    *)
(*                                                                         *)
(* Units.  Floating-point quantities are scaled to integers so that the    *)
(* comparisons of the source keep their strictness:                        *)
(*   energy and confidence are in thousandths (0.02 is 20, 0.7 is 700),    *)
(*   pitch and spectral centroid are in Hz.                                *)
(* Text is a sequence of characters over {" ", "a"}.                       *)
(***************************************************************************)
EXTENDS Integers, Sequences, FiniteSets, TLC

VARIABLES
    variant,          \* which program runs: "app", "ed", or "call" (direct calls)
    mode,             \* input type chosen by the user
    pc,               \* position in the script
    audio_feats,      \* <<pitch, energy, centroid>> of this analysis
    text,             \* text handed to analyze_text_emotion
    text_label,       \* label passed to combine_results
    text_conf,        \* confidence passed to combine_results (read only once text_label is set)
    audio_emotion,    \* per implementation: audio emotion of combine_results
    final_emotion,    \* per implementation: final emotion of combine_results
    exc,              \* stage whose exception left the analysis, or "none"
    stt_failed,       \* transcription failed inside speech_to_text
    clf_loaded,       \* the text classifier was loaded during this analysis
    clf_invoked,      \* the text classifier was invoked during this analysis
    asr_cached,       \* st.cache_resource holds the speech-to-text model
    clf_cached,       \* st.cache_resource holds the text model
    reported,         \* an error message / traceback was shown
    alive             \* the process is still running

vars == <<variant, mode, pc, audio_feats, text, text_label, text_conf,
          audio_emotion, final_emotion, exc, stt_failed, clf_loaded,
          clf_invoked, asr_cached, clf_cached, reported, alive>>

-----------------------------------------------------------------------------
(* Bounds and input samples *)

MaxTextLen == 2

Chars == {" ", "a"}

Texts == UNION {[1..n -> Chars] : n \in 0..MaxTextLen}

\* yin searches 50..300 Hz; the samples sit below, on and above each threshold.
PitchSamples == {50, 99, 100, 101, 149, 150, 151, 199, 200, 201, 300}

EnergySamples == {0, 19, 20, 21, 30, 31, 40, 41, 50, 51, 80}

CentroidSamples == {1500, 3000}

FeatureSamples == {<<p, e, c>> : p \in PitchSamples, e \in EnergySamples, c \in CentroidSamples}

\* Scores reported by the classifier for its top label.
ScoreSamples == {300, 700, 701, 850}

\* Labels as the classifier emits them, before .lower().
RawLabels == {"joy", "Joy", "neutral", "NEUTRAL", "sadness", "anger"}

\* Labels and confidences for direct calls of combine_results.
CallLabels == {"", "joy", "sadness", "sad", "happy", "angry", "neutral"}

CallConfs == {0, 300, 500, 699, 700, 701, 850, 1000}

Impls == {"app", "ed"}

None == "<none>"

NoFeats == <<>>

-----------------------------------------------------------------------------
(* str.strip(), str.lower() *)

RECURSIVE LStrip(_)
LStrip(s) == IF s = <<>> THEN s
             ELSE IF Head(s) = " " THEN LStrip(Tail(s)) ELSE s

RECURSIVE RStrip(_)
RStrip(s) == IF s = <<>> THEN s
             ELSE IF s[Len(s)] = " " THEN RStrip(SubSeq(s, 1, Len(s) - 1)) ELSE s

Strip(s) == RStrip(LStrip(s))

Lower(l) == CASE l = "Joy" -> "joy"
              [] l = "NEUTRAL" -> "neutral"
              [] OTHER -> l

-----------------------------------------------------------------------------
(* app.py: combine_results *)

\* Variant of app_rule_sad with the energy bound made non-strict.
app_rule_sad_nonstrict(pitch, energy) == energy <= 20 /\ pitch < 100

app_rule_sad(pitch, energy) == energy < 20 /\ pitch < 100

app_rule_happy(pitch, energy) == pitch > 200 /\ energy > 50

app_rule_angry(pitch, energy) == energy > 40 /\ pitch < 150

app_audio_emotion(audio) ==
    LET pitch == audio[1]
        energy == audio[2]
    IN  IF app_rule_sad(pitch, energy) THEN "sad"
        ELSE IF app_rule_happy(pitch, energy) THEN "happy"
        ELSE IF app_rule_angry(pitch, energy) THEN "angry"
        ELSE "neutral"

\* Variant of app_final_emotion with the confidence gate at 0.8.
app_final_emotion_gate80(audio, a_emotion, label, conf) ==
    LET energy == audio[2]
    IN  IF conf > 800 THEN label
        ELSE IF energy > 30 THEN a_emotion ELSE label

\* Variant of app_final_emotion with a non-strict confidence gate.
app_final_emotion_gate_nonstrict(audio, a_emotion, label, conf) ==
    LET energy == audio[2]
    IN  IF conf >= 700 THEN label
        ELSE IF energy > 30 THEN a_emotion ELSE label

app_final_emotion(audio, a_emotion, label, conf) ==
    LET energy == audio[2]
    IN  IF conf > 700 THEN label
        ELSE IF energy > 30 THEN a_emotion ELSE label

app_combine_results(audio, label, conf) ==
    LET a == app_audio_emotion(audio)
    IN  [audio_emotion |-> a, final_emotion |-> app_final_emotion(audio, a, label, conf)]

-----------------------------------------------------------------------------
(* ed.py: combine_results *)

ed_rule_sad(pitch, energy) == energy < 20 /\ pitch < 100

ed_rule_happy(pitch, energy) == pitch > 200 /\ energy > 50

\* Variant of ed_rule_angry with the pitch bound of 150 Hz written as 250 Hz.
ed_rule_angry_wide(pitch, energy) == energy > 40 /\ pitch < 250

ed_rule_angry(pitch, energy) == energy > 40 /\ pitch < 150

ed_audio_emotion(audio) ==
    LET pitch == audio[1]
        energy == audio[2]
    IN  IF ed_rule_sad(pitch, energy) THEN "sad"
        ELSE IF ed_rule_happy(pitch, energy) THEN "happy"
        ELSE IF ed_rule_angry(pitch, energy) THEN "angry"
        ELSE "neutral"

\* Variant of ed_final_emotion with a non-strict energy test.
ed_final_emotion_energy_nonstrict(audio, a_emotion, label, conf) ==
    LET energy == audio[2]
    IN  IF conf > 700 THEN label
        ELSE IF a_emotion = label THEN a_emotion
        ELSE IF energy >= 30 THEN a_emotion ELSE label

\* Variant of ed_final_emotion that falls back to "neutral" when the two
\* labels disagree and the audio is weak.
ed_final_emotion_blend(audio, a_emotion, label, conf) ==
    LET energy == audio[2]
    IN  IF conf > 700 THEN label
        ELSE IF a_emotion = label THEN a_emotion
        ELSE IF energy > 30 THEN a_emotion ELSE "neutral"

ed_final_emotion(audio, a_emotion, label, conf) ==
    LET energy == audio[2]
    IN  IF conf > 700 THEN label
        ELSE IF a_emotion = label THEN a_emotion
        ELSE IF energy > 30 THEN a_emotion ELSE label

\* audio_emotion is printed, final_emotion is printed and returned.
ed_combine_results(audio, label, conf) ==
    LET a == ed_audio_emotion(audio)
    IN  [audio_emotion |-> a, final_emotion |-> ed_final_emotion(audio, a, label, conf)]

-----------------------------------------------------------------------------
(* app.py: speech_to_text and analyze_text_emotion.  Each operator gives   *)
(* the set of outcomes of one call; the collaborators (model download,     *)
(* recogniser, classifier) may succeed or raise.                           *)

\* load_speech_to_text_model() runs before the try block; the recogniser
\* call and the strip are inside it.
app_speech_to_text(cached) ==
    (IF cached THEN {}
     ELSE {[raised |-> TRUE, failed |-> TRUE, text |-> <<>>, cached |-> FALSE]})
    \cup {[raised |-> FALSE, failed |-> TRUE, text |-> <<>>, cached |-> TRUE]}
    \cup {[raised |-> FALSE, failed |-> FALSE, text |-> Strip(raw), cached |-> TRUE] :
             raw \in Texts}

app_empty_text_result == [label |-> "neutral", conf |-> 0]

app_text_is_empty(t) == Strip(t) = <<>>

app_analyze_text_emotion(t, cached) ==
    IF app_text_is_empty(t)
    THEN {[raised |-> FALSE, loaded |-> FALSE, invoked |-> FALSE, cached |-> cached,
           label |-> app_empty_text_result.label, conf |-> app_empty_text_result.conf]}
    ELSE (IF cached THEN {}
          ELSE {[raised |-> TRUE, loaded |-> TRUE, invoked |-> FALSE, cached |-> FALSE,
                 label |-> None, conf |-> 0]})
         \cup {[raised |-> TRUE, loaded |-> TRUE, invoked |-> TRUE, cached |-> TRUE,
                label |-> None, conf |-> 0]}
         \cup {[raised |-> FALSE, loaded |-> TRUE, invoked |-> TRUE, cached |-> TRUE,
                label |-> Lower(raw), conf |-> score] :
                  raw \in RawLabels, score \in ScoreSamples}

-----------------------------------------------------------------------------
(* ed.py: speech_to_text and analyze_text_emotion *)

\* Opening or reading the AudioFile is outside the try block; only
\* UnknownValueError and RequestError of the recogniser are caught.
ed_speech_to_text ==
    {[raised |-> TRUE, failed |-> TRUE, text |-> <<>>, kind |-> k] :
        k \in {"AudioFile", "other"}}
    \cup {[raised |-> FALSE, failed |-> TRUE, text |-> <<>>, kind |-> k] :
        k \in {"UnknownValueError", "RequestError"}}
    \cup {[raised |-> FALSE, failed |-> FALSE, text |-> raw, kind |-> "ok"] :
        raw \in Texts}

\* Variant of ed_empty_text_result reporting full confidence.
ed_empty_text_result_confident == [label |-> "neutral", conf |-> 1000]

ed_empty_text_result == [label |-> "neutral", conf |-> 500]

ed_text_is_empty(t) == t = <<>>

\* The pipeline is built on every call; nothing is cached.
ed_analyze_text_emotion(t) ==
    IF ed_text_is_empty(t)
    THEN {[raised |-> FALSE, loaded |-> FALSE, invoked |-> FALSE,
           label |-> ed_empty_text_result.label, conf |-> ed_empty_text_result.conf]}
    ELSE {[raised |-> TRUE, loaded |-> TRUE, invoked |-> FALSE,
           label |-> None, conf |-> 0],
          [raised |-> TRUE, loaded |-> TRUE, invoked |-> TRUE,
           label |-> None, conf |-> 0]}
         \cup {[raised |-> FALSE, loaded |-> TRUE, invoked |-> TRUE,
                label |-> Lower(raw), conf |-> score] :
                  raw \in RawLabels, score \in ScoreSamples}

-----------------------------------------------------------------------------
(* Initial state and the two ways an exception leaves an analysis *)

NoResult == [i \in Impls |-> None]

Fresh ==
    /\ mode = "none"
    /\ audio_feats = NoFeats
    /\ text = <<>>
    /\ text_label = None
    /\ text_conf = 0
    /\ audio_emotion = NoResult
    /\ final_emotion = NoResult
    /\ exc = "none"
    /\ stt_failed = FALSE
    /\ clf_loaded = FALSE
    /\ clf_invoked = FALSE
    /\ reported = FALSE

Init ==
    /\ variant \in Impls
    /\ pc = "idle"
    /\ Fresh
    /\ asr_cached = FALSE
    /\ clf_cached = FALSE
    /\ alive = TRUE

\* app.py has no try/except around the analysis: the exception ends this run
\* of the script, Streamlit shows it on the page and keeps serving.
app_uncaught(stage) ==
    /\ exc' = stage
    /\ pc' = "error"
    /\ reported' = TRUE
    /\ alive' = alive

\* ed.py has no try/except either: the interpreter prints the traceback and
\* the process terminates.
ed_uncaught(stage) ==
    /\ exc' = stage
    /\ pc' = "crashed"
    /\ reported' = TRUE
    /\ alive' = FALSE

-----------------------------------------------------------------------------
(* app.py: one run of the Streamlit script per user interaction *)

\* Text mode: the button calls analyze_text_emotion on the text input.
App_TextMode ==
    /\ variant = "app" /\ pc = "idle"
    /\ \E t \in Texts : \E o \in app_analyze_text_emotion(t, clf_cached) :
        /\ mode' = "text"
        /\ text' = t
        /\ clf_loaded' = o.loaded
        /\ clf_invoked' = o.invoked
        /\ clf_cached' = o.cached
        /\ IF o.raised
           THEN /\ app_uncaught("classify")
                /\ UNCHANGED <<text_label, text_conf>>
           ELSE /\ text_label' = o.label
                /\ text_conf' = o.conf
                /\ pc' = "shown"
                /\ UNCHANGED <<exc, reported, alive>>
    /\ UNCHANGED <<variant, audio_feats, audio_emotion, final_emotion, stt_failed, asr_cached>>

\* Audio Upload / Live Audio: librosa.load and sf.write, either may raise.
App_Upload ==
    /\ variant = "app" /\ pc = "idle"
    /\ mode' = "audio"
    /\ \/ /\ pc' = "extract"
          /\ UNCHANGED <<exc, reported, alive>>
       \/ app_uncaught("load")
    /\ UNCHANGED <<variant, audio_feats, text, text_label, text_conf, audio_emotion,
                   final_emotion, stt_failed, clf_loaded, clf_invoked, asr_cached, clf_cached>>

\* Live Audio, "Stop & Analyze" with no frames received: st.error, no analysis.
App_LiveNoFrames ==
    /\ variant = "app" /\ pc = "idle"
    /\ mode' = "live"
    /\ reported' = TRUE
    /\ pc' = "shown"
    /\ UNCHANGED <<variant, audio_feats, text, text_label, text_conf, audio_emotion,
                   final_emotion, exc, stt_failed, clf_loaded, clf_invoked, asr_cached,
                   clf_cached, alive>>

App_Extract ==
    /\ variant = "app" /\ pc = "extract"
    /\ \/ /\ audio_feats' \in FeatureSamples
          /\ pc' = "stt"
          /\ UNCHANGED <<exc, reported, alive>>
       \/ /\ app_uncaught("extract")
          /\ UNCHANGED audio_feats
    /\ UNCHANGED <<variant, mode, text, text_label, text_conf, audio_emotion, final_emotion,
                   stt_failed, clf_loaded, clf_invoked, asr_cached, clf_cached>>

App_SpeechToText ==
    /\ variant = "app" /\ pc = "stt"
    /\ \E o \in app_speech_to_text(asr_cached) :
        /\ stt_failed' = o.failed
        /\ asr_cached' = o.cached
        /\ IF o.raised
           THEN /\ app_uncaught("stt")
                /\ UNCHANGED text
           ELSE /\ text' = o.text
                /\ pc' = "text"
                /\ reported' = o.failed       \* st.error in the except block
                /\ UNCHANGED <<exc, alive>>
    /\ UNCHANGED <<variant, mode, audio_feats, text_label, text_conf, audio_emotion,
                   final_emotion, clf_loaded, clf_invoked, clf_cached>>

App_AnalyzeText ==
    /\ variant = "app" /\ pc = "text"
    /\ \E o \in app_analyze_text_emotion(text, clf_cached) :
        /\ clf_loaded' = o.loaded
        /\ clf_invoked' = o.invoked
        /\ clf_cached' = o.cached
        /\ IF o.raised
           THEN /\ app_uncaught("classify")
                /\ UNCHANGED <<text_label, text_conf>>
           ELSE /\ text_label' = o.label
                /\ text_conf' = o.conf
                /\ pc' = "fuse"
                /\ UNCHANGED <<exc, reported, alive>>
    /\ UNCHANGED <<variant, mode, audio_feats, text, audio_emotion, final_emotion,
                   stt_failed, asr_cached>>

App_Combine ==
    /\ variant = "app" /\ pc = "fuse"
    /\ LET r == app_combine_results(audio_feats, text_label, text_conf)
       IN  /\ audio_emotion' = [audio_emotion EXCEPT !["app"] = r.audio_emotion]
           /\ final_emotion' = [final_emotion EXCEPT !["app"] = r.final_emotion]
    /\ pc' = "shown"
    /\ UNCHANGED <<variant, mode, audio_feats, text, text_label, text_conf, exc, stt_failed,
                   clf_loaded, clf_invoked, asr_cached, clf_cached, reported, alive>>

\* The next interaction reruns the script: its locals start over, only the
\* st.cache_resource handles are kept.
App_Rerun ==
    /\ variant = "app" /\ pc \in {"shown", "error"}
    /\ pc' = "idle"
    /\ mode' = "none"
    /\ audio_feats' = NoFeats
    /\ text' = <<>>
    /\ text_label' = None
    /\ text_conf' = 0
    /\ audio_emotion' = NoResult
    /\ final_emotion' = NoResult
    /\ exc' = "none"
    /\ stt_failed' = FALSE
    /\ clf_loaded' = FALSE
    /\ clf_invoked' = FALSE
    /\ reported' = FALSE
    /\ UNCHANGED <<variant, asr_cached, clf_cached, alive>>

-----------------------------------------------------------------------------
(* ed.py: __main__, one analysis per process *)

Ed_ModeText ==
    /\ variant = "ed" /\ pc = "idle"
    /\ \E t \in Texts : \E o \in ed_analyze_text_emotion(t) :
        /\ mode' = "text"
        /\ text' = t
        /\ clf_loaded' = o.loaded
        /\ clf_invoked' = o.invoked
        /\ IF o.raised
           THEN /\ ed_uncaught("classify")
                /\ UNCHANGED <<text_label, text_conf>>
           ELSE /\ text_label' = o.label
                /\ text_conf' = o.conf
                /\ pc' = "exit"
                /\ UNCHANGED <<exc, reported, alive>>
    /\ UNCHANGED <<variant, audio_feats, audio_emotion, final_emotion, stt_failed,
                   asr_cached, clf_cached>>

Ed_ModeInvalid ==
    /\ variant = "ed" /\ pc = "idle"
    /\ mode' = "invalid"
    /\ pc' = "exit"
    /\ UNCHANGED <<variant, audio_feats, text, text_label, text_conf, audio_emotion,
                   final_emotion, exc, stt_failed, clf_loaded, clf_invoked, asr_cached,
                   clf_cached, reported, alive>>

\* record_audio and librosa.output.write_wav, either may raise.
Ed_Record ==
    /\ variant = "ed" /\ pc = "idle"
    /\ mode' = "audio"
    /\ \/ /\ pc' = "extract"
          /\ UNCHANGED <<exc, reported, alive>>
       \/ ed_uncaught("load")
    /\ UNCHANGED <<variant, audio_feats, text, text_label, text_conf, audio_emotion,
                   final_emotion, stt_failed, clf_loaded, clf_invoked, asr_cached, clf_cached>>

Ed_Extract ==
    /\ variant = "ed" /\ pc = "extract"
    /\ \/ /\ audio_feats' \in FeatureSamples
          /\ pc' = "stt"
          /\ UNCHANGED <<exc, reported, alive>>
       \/ /\ ed_uncaught("extract")
          /\ UNCHANGED audio_feats
    /\ UNCHANGED <<variant, mode, text, text_label, text_conf, audio_emotion, final_emotion,
                   stt_failed, clf_loaded, clf_invoked, asr_cached, clf_cached>>

Ed_SpeechToText ==
    /\ variant = "ed" /\ pc = "stt"
    /\ \E o \in ed_speech_to_text :
        /\ stt_failed' = o.failed
        /\ IF o.raised
           THEN /\ ed_uncaught("stt")
                /\ UNCHANGED text
           ELSE /\ text' = o.text
                /\ pc' = "text"
                /\ reported' = o.failed       \* the message printed by the handler
                /\ UNCHANGED <<exc, alive>>
    /\ UNCHANGED <<variant, mode, audio_feats, text_label, text_conf, audio_emotion,
                   final_emotion, clf_loaded, clf_invoked, asr_cached, clf_cached>>

Ed_AnalyzeText ==
    /\ variant = "ed" /\ pc = "text"
    /\ \E o \in ed_analyze_text_emotion(text) :
        /\ clf_loaded' = o.loaded
        /\ clf_invoked' = o.invoked
        /\ IF o.raised
           THEN /\ ed_uncaught("classify")
                /\ UNCHANGED <<text_label, text_conf>>
           ELSE /\ text_label' = o.label
                /\ text_conf' = o.conf
                /\ pc' = "fuse"
                /\ UNCHANGED <<exc, reported, alive>>
    /\ UNCHANGED <<variant, mode, audio_feats, text, audio_emotion, final_emotion,
                   stt_failed, asr_cached, clf_cached>>

Ed_Combine ==
    /\ variant = "ed" /\ pc = "fuse"
    /\ LET r == ed_combine_results(audio_feats, text_label, text_conf)
       IN  /\ audio_emotion' = [audio_emotion EXCEPT !["ed"] = r.audio_emotion]
           /\ final_emotion' = [final_emotion EXCEPT !["ed"] = r.final_emotion]
    /\ pc' = "exit"
    /\ UNCHANGED <<variant, mode, audio_feats, text, text_label, text_conf, exc, stt_failed,
                   clf_loaded, clf_invoked, asr_cached, clf_cached, reported, alive>>

Next ==
    \/ App_TextMode
    \/ App_Upload
    \/ App_LiveNoFrames
    \/ App_Extract
    \/ App_SpeechToText
    \/ App_AnalyzeText
    \/ App_Combine
    \/ App_Rerun
    \/ Ed_ModeText
    \/ Ed_ModeInvalid
    \/ Ed_Record
    \/ Ed_Extract
    \/ Ed_SpeechToText
    \/ Ed_AnalyzeText
    \/ Ed_Combine

Spec == Init /\ [][Next]_vars

-----------------------------------------------------------------------------
(* Direct calls of combine_results: the arguments are drawn from the       *)
(* samples, then each implementation is called on them.                    *)

InitCall ==
    /\ variant = "call"
    /\ pc = "call"
    /\ mode = "none"
    /\ audio_feats \in FeatureSamples
    /\ text = <<>>
    /\ text_label \in CallLabels
    /\ text_conf \in CallConfs
    /\ audio_emotion = NoResult
    /\ final_emotion = NoResult
    /\ exc = "none"
    /\ stt_failed = FALSE
    /\ clf_loaded = FALSE
    /\ clf_invoked = FALSE
    /\ asr_cached = FALSE
    /\ clf_cached = FALSE
    /\ reported = FALSE
    /\ alive = TRUE

Call_app ==
    /\ variant = "call" /\ final_emotion["app"] = None
    /\ LET r == app_combine_results(audio_feats, text_label, text_conf)
       IN  /\ audio_emotion' = [audio_emotion EXCEPT !["app"] = r.audio_emotion]
           /\ final_emotion' = [final_emotion EXCEPT !["app"] = r.final_emotion]
    /\ UNCHANGED <<variant, mode, pc, audio_feats, text, text_label, text_conf, exc,
                   stt_failed, clf_loaded, clf_invoked, asr_cached, clf_cached, reported, alive>>

Call_ed ==
    /\ variant = "call" /\ final_emotion["ed"] = None
    /\ LET r == ed_combine_results(audio_feats, text_label, text_conf)
       IN  /\ audio_emotion' = [audio_emotion EXCEPT !["ed"] = r.audio_emotion]
           /\ final_emotion' = [final_emotion EXCEPT !["ed"] = r.final_emotion]
    /\ UNCHANGED <<variant, mode, pc, audio_feats, text, text_label, text_conf, exc,
                   stt_failed, clf_loaded, clf_invoked, asr_cached, clf_cached, reported, alive>>

NextCall == Call_app \/ Call_ed

SpecCall == InitCall /\ [][NextCall]_vars

-----------------------------------------------------------------------------
(* Properties of combine_results, checked under SpecCall *)

pitch_of(f) == f[1]

energy_of(f) == f[2]

Called(i) == final_emotion[i] # None

AudioLabels == {"sad", "happy", "angry", "neutral"}

\* The ordered rules as the specification states them.
StatedAudioEmotion(pitch, energy) ==
    IF energy < 20 /\ pitch < 100 THEN "sad"
    ELSE IF pitch > 200 /\ energy > 50 THEN "happy"
    ELSE IF energy > 40 /\ pitch < 150 THEN "angry"
    ELSE "neutral"

AudioEmotionOf(i, f) ==
    IF i = "app" THEN app_combine_results(f, text_label, text_conf).audio_emotion
    ELSE ed_combine_results(f, text_label, text_conf).audio_emotion

\* C1: the audio emotion of combine_results is the first match of the ordered
\* rules sad, happy, angry, else neutral; it is one of the four labels and
\* does not depend on the spectral centroid.
C1_AudioEmotionFirstMatch ==
    \A i \in Impls : Called(i) =>
        /\ audio_emotion[i] = StatedAudioEmotion(pitch_of(audio_feats), energy_of(audio_feats))
        /\ audio_emotion[i] \in AudioLabels
        /\ \A c \in CentroidSamples :
              AudioEmotionOf(i, <<pitch_of(audio_feats), energy_of(audio_feats), c>>)
                  = audio_emotion[i]

C1_Witness ==
    \A i \in Impls : Called(i) /\ audio_emotion[i] = "angry"

\* C2: with text_conf > 0.7 the final emotion is text_label, whatever the
\* audio features and the audio emotion are.
C2_ConfidenceGate ==
    \A i \in Impls : (Called(i) /\ text_conf > 700) => final_emotion[i] = text_label

C2_Witness ==
    /\ \A i \in Impls : Called(i) /\ audio_emotion[i] # text_label
    /\ text_conf = 701
    /\ energy_of(audio_feats) > 30

\* C3: with text_conf <= 0.7 the final emotion is the audio emotion if
\* energy > 0.03 and text_label if energy <= 0.03.
C3_LowConfidenceFusion ==
    \A i \in Impls : (Called(i) /\ text_conf <= 700) =>
        final_emotion[i] = IF energy_of(audio_feats) > 30 THEN audio_emotion[i]
                           ELSE text_label

C3_Witness ==
    /\ \A i \in Impls : Called(i) /\ audio_emotion[i] # text_label
    /\ text_conf = 700
    /\ energy_of(audio_feats) = 30

\* C4: the final emotion is the audio emotion of the same call or the
\* text_label passed in, never another value.
C4_FinalIsAudioOrText ==
    \A i \in Impls : Called(i) => final_emotion[i] \in {audio_emotion[i], text_label}

C4_Witness ==
    /\ \A i \in Impls : Called(i) /\ final_emotion[i] = audio_emotion[i]
    /\ text_label \notin AudioLabels

RuleNames == {"sad", "happy", "angry"}

RuleHolds(i, r, pitch, energy) ==
    CASE r = "sad" -> IF i = "app" THEN app_rule_sad(pitch, energy)
                      ELSE ed_rule_sad(pitch, energy)
      [] r = "happy" -> IF i = "app" THEN app_rule_happy(pitch, energy)
                        ELSE ed_rule_happy(pitch, energy)
      [] r = "angry" -> IF i = "app" THEN app_rule_angry(pitch, energy)
                        ELSE ed_rule_angry(pitch, energy)

RuleOrders == {o \in [1..3 -> RuleNames] : \A a, b \in 1..3 : a # b => o[a] # o[b]}

FirstMatchIn(i, o, pitch, energy) ==
    IF RuleHolds(i, o[1], pitch, energy) THEN o[1]
    ELSE IF RuleHolds(i, o[2], pitch, energy) THEN o[2]
    ELSE IF RuleHolds(i, o[3], pitch, energy) THEN o[3]
    ELSE "neutral"

\* C8: no feature triple satisfies two of the three rule conditions, so
\* every evaluation order gives the audio emotion combine_results gives.
C8_RulesMutuallyExclusive ==
    \A i \in Impls : Called(i) =>
        LET p == pitch_of(audio_feats)
            e == energy_of(audio_feats)
        IN  /\ \A r1, r2 \in RuleNames :
                  (r1 # r2) => ~(RuleHolds(i, r1, p, e) /\ RuleHolds(i, r2, p, e))
            /\ \A o \in RuleOrders : FirstMatchIn(i, o, p, e) = audio_emotion[i]

C8_Witness ==
    \A i \in Impls : Called(i) /\ audio_emotion[i] = "happy"

\* C9: on the same arguments ed.py's combine_results returns the final
\* emotion app.py's returns; the branch for audio_emotion == text_label
\* changes nothing.
C9_EdEqualsApp ==
    (Called("app") /\ Called("ed")) => final_emotion["ed"] = final_emotion["app"]

C9_Witness ==
    /\ Called("app") /\ Called("ed")
    /\ text_conf <= 700
    /\ audio_emotion["ed"] = text_label
    /\ energy_of(audio_feats) <= 30

-----------------------------------------------------------------------------
(* Properties of the analysis pipeline, checked under Spec *)

\* analyze_text_emotion has been called on `text` and has returned or raised.
AnalyzeCalled == mode \in {"text", "audio"} /\ (text_label # None \/ exc = "classify")

\* C5: given empty or blank text, analyze_text_emotion returns exactly
\* ("neutral", 0.0) and neither loads nor invokes the text classifier.
C5_EmptyTextShortCircuit ==
    (variant \in Impls /\ AnalyzeCalled /\ Strip(text) = <<>>) =>
        /\ exc = "none"
        /\ text_label = "neutral"
        /\ text_conf = 0
        /\ ~clf_loaded
        /\ ~clf_invoked

\* C6: every failure of transcription makes speech_to_text return the empty
\* string; no exception leaves speech_to_text.
C6_TranscriptionNeverRaises ==
    (variant \in Impls /\ stt_failed) => (exc # "stt" /\ text = <<>>)

\* C7: a failed feature extraction or text classification aborts the
\* analysis without a final emotion, is reported, and leaves the process
\* running.
C7_FailureIsContained ==
    (variant \in Impls /\ exc \in {"extract", "classify"}) =>
        /\ final_emotion[variant] = None
        /\ reported
        /\ alive

\* C10: in the audio pipeline the final emotion is never the empty label,
\* and when transcription yields no text it is the audio emotion if
\* energy > 0.03 and "neutral" otherwise.
C10_FinalNeverEmpty ==
    \A i \in Impls : (variant = i /\ mode = "audio" /\ Called(i)) =>
        /\ final_emotion[i] # ""
        /\ (text = <<>>) =>
              final_emotion[i] = IF energy_of(audio_feats) > 30 THEN audio_emotion[i]
                                 ELSE "neutral"

C10_Witness ==
    /\ variant = "ed" /\ mode = "audio" /\ Called("ed")
    /\ stt_failed /\ text = <<>>
    /\ energy_of(audio_feats) > 30
    /\ final_emotion["ed"] = "angry"

====
